---- MODULE Spec2Model ----
(***************************************************************************)
(* Model of the Bone Renamer add-on (src/bone-renamer.py).                 *)
(*                                                                         *)
(* A name is a sequence of one-character strings, so that the string       *)
(* operations of the add-on (digit runs, replace, endswith, zfill, sort    *)
(* by name) are computed character by character as Python computes them.   *)
(***************************************************************************)
EXTENDS Integers, Sequences, FiniteSets

VARIABLES
    name,                     \* bone -> bone.name
    new_name_value,           \* Scene.new_name_value
    only_root_bone_selected,  \* Scene.only_root_bone_selected
    scene_move_lr_to_end,     \* Scene.move_lr_to_end (the property, not the function)
    selected_bones,           \* bpy.context.selected_bones of the last command
    active_bone,              \* context.active_bone of the last command (None: no bone)
    op,                       \* the last operator run
    status,                   \* what its execute returned
    reported,                 \* whether it called self.report({'ERROR'}, ...)
    old_name,                 \* bone names when the last operator started
    old_value,                \* new_name_value when the last operator started
    steps,                    \* operators run so far (the swap button is not counted)
    fn, arg, inc, selnames, ret   \* a direct call of a name helper and its result

vars == <<name, new_name_value, only_root_bone_selected, scene_move_lr_to_end,
          selected_bones, active_bone, op, status, reported, old_name, old_value,
          steps, fn, arg, inc, selnames, ret>>

scene == <<name, new_name_value, only_root_bone_selected, scene_move_lr_to_end,
           selected_bones, active_bone, op, status, reported, old_name, old_value,
           steps>>

call == <<fn, arg, inc, selnames, ret>>

(***************************************************************************)
(* Bounds of the model.                                                    *)
(***************************************************************************)
MaxSteps == 1     \* operators run per behaviour
MaxInc == 2       \* increments tried in direct calls of get_incremented_name
MaxLen == 4       \* length of the names given to get_incremented_name
MaxLRLen == 6     \* length of the names given to move_lr_to_end / swap_lr_in_name
MaxChain == 2     \* successive candidates that may already be taken

(***************************************************************************)
(* Characters and Python's str primitives.                                 *)
(***************************************************************************)
ascii_digits == <<"0", "1", "2", "3", "4", "5", "6", "7", "8", "9">>

ascii_uppercase == <<"A", "B", "C", "D", "E", "F", "G", "H", "I", "J", "K", "L", "M",
                     "N", "O", "P", "Q", "R", "S", "T", "U", "V", "W", "X", "Y", "Z">>

ascii_lowercase == <<"a", "b", "c", "d", "e", "f", "g", "h", "i", "j", "k", "l", "m",
                     "n", "o", "p", "q", "r", "s", "t", "u", "v", "w", "x", "y", "z">>

\* The characters in code point order: digits < upper case < "_" < lower case.
code_points == ascii_digits \o ascii_uppercase \o <<"_">> \o ascii_lowercase

Range(s) == {s[i] : i \in DOMAIN s}

ord(c) == CHOOSE i \in DOMAIN code_points : code_points[i] = c

digit_chars == Range(ascii_digits)

isdigit(c) == c \in digit_chars

\* int(s) of a non-empty digit string
RECURSIVE int(_)
int(s) ==
    IF s = <<>> THEN 0
    ELSE 10 * int(SubSeq(s, 1, Len(s) - 1)) + (ord(s[Len(s)]) - 1)

\* str(n) of a natural number
RECURSIVE str(_)
str(n) ==
    IF n < 10 THEN <<ascii_digits[n + 1]>>
    ELSE Append(str(n \div 10), ascii_digits[(n % 10) + 1])

\* s.zfill(width) of a digit string
RECURSIVE zfill(_, _)
zfill(s, width) == IF Len(s) >= width THEN s ELSE zfill(<<"0">> \o s, width)

startswith_at(s, sub, i) ==
    /\ i >= 1
    /\ i + Len(sub) - 1 <= Len(s)
    /\ SubSeq(s, i, i + Len(sub) - 1) = sub

\* sub in s
contains(s, sub) == \E i \in 1..(Len(s) + 1) : startswith_at(s, sub, i)

\* s.endswith(suffix)
endswith(s, suffix) == startswith_at(s, suffix, Len(s) - Len(suffix) + 1)

\* s.find(sub) as a 1-based position, 0 when sub does not occur
find(s, sub) ==
    IF contains(s, sub)
    THEN CHOOSE i \in 1..(Len(s) + 1) :
            /\ startswith_at(s, sub, i)
            /\ \A j \in 1..(i - 1) : ~startswith_at(s, sub, j)
    ELSE 0

\* faulty variant of replace_first: replaces the last occurrence
replace_last(s, old, new) ==
    IF ~contains(s, old) THEN s
    ELSE LET i == CHOOSE k \in 1..(Len(s) + 1) :
                     /\ startswith_at(s, old, k)
                     /\ \A j \in (k + 1)..(Len(s) + 1) : ~startswith_at(s, old, j)
         IN SubSeq(s, 1, i - 1) \o new \o SubSeq(s, i + Len(old), Len(s))

\* s.replace(old, new, 1): the first occurrence only
replace_first(s, old, new) ==
    LET i == find(s, old)
    IN IF i = 0 THEN s
       ELSE SubSeq(s, 1, i - 1) \o new \o SubSeq(s, i + Len(old), Len(s))

\* faulty variant of replace_all: stops after the first occurrence
replace_all_once(s, old, new) == replace_first(s, old, new)

\* s.replace(old, new): every non-overlapping occurrence, left to right

RECURSIVE replace_all(_, _, _)
replace_all(s, old, new) ==
    LET i == find(s, old)
    IN IF i = 0 THEN s
       ELSE SubSeq(s, 1, i - 1) \o new
            \o replace_all(SubSeq(s, i + Len(old), Len(s)), old, new)

\* re.findall(r'\d+', s)[-1]: the last maximal run of digits, <<>> when s has none
last_digit_run(s) ==
    IF \A i \in DOMAIN s : ~isdigit(s[i]) THEN <<>>
    ELSE LET e == CHOOSE i \in DOMAIN s :
                     /\ isdigit(s[i])
                     /\ \A j \in (i + 1)..Len(s) : ~isdigit(s[j])
             b == CHOOSE i \in 1..e :
                     /\ \A j \in i..e : isdigit(s[j])
                     /\ (i = 1 \/ ~isdigit(s[i - 1]))
         IN SubSeq(s, b, e)

(***************************************************************************)
(* The name helpers.                                                        *)
(***************************************************************************)

\* lines 19-21: the candidate name, before the collision check
new_name_of(bone_name, increment) ==
    LET last_match == last_digit_run(bone_name)
        new_number == zfill(str(int(last_match) + increment), Len(last_match))
    IN replace_first(bone_name, last_match, new_number)

\* faulty variant of get_incremented_name: no collision check
get_incremented_name_nocheck(bone_name, increment, selected) ==
    IF last_digit_run(bone_name) # <<>>
    THEN new_name_of(bone_name, increment)
    ELSE bone_name

\* get_incremented_name; selected is the set of names of bpy.context.selected_bones
RECURSIVE get_incremented_name(_, _, _)
get_incremented_name(bone_name, increment, selected) ==
    IF last_digit_run(bone_name) # <<>>
    THEN LET new_name == new_name_of(bone_name, increment)
         IN IF new_name \in selected
            THEN get_incremented_name(new_name, 1, selected)
            ELSE new_name
    ELSE bone_name

\* move_lr_to_end: the suffix is appended to the name, stripped of every _L_ (or _R_)
move_lr_to_end(n) ==
    IF contains(n, <<"_", "L", "_">>) \/ endswith(n, <<"_", "L">>)
    THEN replace_all(n, <<"_", "L", "_">>, <<"_">>) \o <<"_", "L">>
    ELSE IF contains(n, <<"_", "R", "_">>) \/ endswith(n, <<"_", "R">>)
         THEN replace_all(n, <<"_", "R", "_">>, <<"_">>) \o <<"_", "R">>
         ELSE n

\* faulty variant of swap_lr_in_name: _R is not turned into _L
swap_lr_in_name_one_way(n) ==
    IF endswith(n, <<"_", "L">>)
    THEN SubSeq(n, 1, Len(n) - 2) \o <<"_", "R">>
    ELSE n

\* swap_lr_in_name
swap_lr_in_name(n) ==
    IF endswith(n, <<"_", "L">>)
    THEN SubSeq(n, 1, Len(n) - 2) \o <<"_", "R">>
    ELSE IF endswith(n, <<"_", "R">>)
         THEN SubSeq(n, 1, Len(n) - 2) \o <<"_", "L">>
         ELSE n

\* faulty variant of search_digit: any character counts
search_digit_nonempty(s) == s # <<>>

\* re.search(r'\d', s)

search_digit(s) == \E i \in DOMAIN s : isdigit(s[i])

\* a < b for Python strings: code point by code point, a proper prefix being smaller
str_less(a, b) ==
    \E k \in 1..Len(b) :
        /\ k - 1 <= Len(a)
        /\ \A j \in 1..(k - 1) : a[j] = b[j]
        /\ (k = Len(a) + 1 \/ ord(a[k]) < ord(b[k]))

\* faulty variant of sort_by_name: the list is left in armature order
sort_by_name_unsorted(bones, names) == bones

\* list.sort(key=lambda x: x.name) on a list of bones: ascending and stable

RECURSIVE sort_by_name(_, _)
sort_by_name(bones, names) ==
    IF bones = <<>> THEN <<>>
    ELSE LET i == CHOOSE k \in DOMAIN bones :
                     /\ \A j \in DOMAIN bones : ~str_less(names[bones[j]], names[bones[k]])
                     /\ \A j \in 1..(k - 1) : str_less(names[bones[k]], names[bones[j]])
         IN <<bones[i]>>
            \o sort_by_name(SubSeq(bones, 1, i - 1) \o SubSeq(bones, i + 1, Len(bones)),
                            names)

(***************************************************************************)
(* The armature: a fixed tree of five bones.  parent[b] = 0 for the root.  *)
(* Bone 1 has the children 2, 3, 4 and bone 2 has the child 5.              *)
(***************************************************************************)
None == 0

parent == <<0, 1, 1, 1, 2>>

Bones == DOMAIN parent

RECURSIVE depth_below(_, _)
\* the number of parent links from bone b up to bone a, 0 when a is no ancestor of b
depth_below(a, b) ==
    IF parent[b] = None THEN 0
    ELSE IF parent[b] = a THEN 1
         ELSE LET d == depth_below(a, parent[b])
              IN IF d = 0 THEN 0 ELSE d + 1

\* the bones of S as a sequence ordered by key (a bone -> integer function), ties by index
RECURSIVE ordered(_, _)
ordered(S, key) ==
    IF S = {} THEN <<>>
    ELSE LET b == CHOOSE x \in S :
                     \A y \in S : key[x] < key[y] \/ (key[x] = key[y] /\ x <= y)
         IN <<b>> \o ordered(S \ {b}, key)

\* bone.children: the direct children, in armature order
children(b) == ordered({c \in Bones : parent[c] = b}, [c \in Bones |-> 0])

\* bone.children_recursive: every descendant, nearest generation first
children_recursive(b) ==
    ordered({c \in Bones : depth_below(b, c) > 0}, [c \in Bones |-> depth_below(b, c)])

(***************************************************************************)
(* Inputs.                                                                  *)
(***************************************************************************)
Strings(alphabet, n) == UNION {[1..k -> alphabet] : k \in 0..n}

\* names handed to get_incremented_name in direct calls
IncInputs == Strings({"b", "0", "1", "9"}, MaxLen)

\* names handed to move_lr_to_end and typed into the field for swap_lr_in_name
LRInputs == Strings({"a", "_", "L", "R"}, MaxLRLen)

\* the bone names the armature may start with (pairwise distinct, as the host keeps them)
InitialNames ==
    { <<<<"r">>, <<"z">>, <<"a">>, <<"m">>, <<"t">>>>,
      <<<<"r">>, <<"b", "4">>, <<"b", "2">>, <<"b", "3">>, <<"b", "5">>>> }

\* the texts the user types into the "New Name" field
FieldInputs ==
    { <<>>, <<"a">>, <<"b", "1">>, <<"a", "_", "L">> }

\* selections: up to two distinct bones, in either order the host may yield them
Selections ==
    {<<>>} \cup {<<a>> : a \in Bones}
           \cup {x \in Bones \X Bones : x[1] # x[2]}

\* what the host's context may hold: a selection and the active bone, which is one of
\* the selected bones when there is one
Contexts ==
    {c \in Selections \X (Bones \cup {None}) : c[2] = None \/ c[2] \in Range(c[1])}

(***************************************************************************)
(* Direct calls of the name helpers (specification SpecPure).              *)
(***************************************************************************)

\* the first MaxChain + 1 successive candidates for (n, i), and n itself
RECURSIVE candidates(_, _, _)
candidates(n, i, k) ==
    IF last_digit_run(n) = <<>> THEN {n}
    ELSE LET c == new_name_of(n, i)
         IN IF k = 0 THEN {c} ELSE {c} \cup candidates(c, 1, k - 1)

call_get_incremented_name ==
    /\ \E i \in 1..MaxInc :
         \E S \in SUBSET (candidates(arg, i, MaxChain) \cup {arg}) :
            /\ inc' = i
            /\ selnames' = S
            /\ ret' = get_incremented_name(arg, i, S)
    /\ fn' = "get_incremented_name"
    /\ UNCHANGED <<arg, scene>>

call_move_lr_to_end ==
    /\ fn' = "move_lr_to_end"
    /\ ret' = move_lr_to_end(arg)
    /\ UNCHANGED <<arg, inc, selnames, scene>>

\* SwapLRInNameOperator.execute
SwapLRInNameOperator ==
    /\ old_value' = new_name_value
    /\ old_name' = name
    /\ new_name_value' = swap_lr_in_name(new_name_value)
    /\ op' = "swap_lr_in_name"
    /\ status' = "FINISHED"
    /\ reported' = FALSE
    /\ UNCHANGED <<name, only_root_bone_selected, scene_move_lr_to_end,
                   selected_bones, active_bone, steps, call>>

\* register(): the properties' defaults; the armature as the host hands it over
SceneInit ==
    /\ name \in InitialNames
    /\ new_name_value = <<>>
    /\ only_root_bone_selected = FALSE
    /\ scene_move_lr_to_end = FALSE
    /\ selected_bones = <<>>
    /\ active_bone = None
    /\ op = "none"
    /\ status = "NONE"
    /\ reported = FALSE
    /\ old_name = name
    /\ old_value = <<>>
    /\ steps = 0

CallInit ==
    /\ fn = "none"
    /\ arg = <<>>
    /\ inc = 0
    /\ selnames = {}
    /\ ret = <<>>

\* a helper is about to be called on arg; the same text sits in the "New Name" field
PureInit ==
    /\ arg \in IncInputs \cup LRInputs
    /\ fn = "none"
    /\ inc = 0
    /\ selnames = {}
    /\ ret = <<>>
    /\ name = CHOOSE n \in InitialNames : TRUE
    /\ new_name_value = arg
    /\ only_root_bone_selected = FALSE
    /\ scene_move_lr_to_end = FALSE
    /\ selected_bones = <<>>
    /\ active_bone = None
    /\ op = "none"
    /\ status = "NONE"
    /\ reported = FALSE
    /\ old_name = name
    /\ old_value = arg
    /\ steps = 0

\* one call, or one press of the swap button, on the text drawn by PureInit
Fresh == fn = "none" /\ op = "none"

PureNext ==
    \/ Fresh /\ call_get_incremented_name
    \/ Fresh /\ call_move_lr_to_end
    \/ Fresh /\ SwapLRInNameOperator

SpecPure == PureInit /\ [][PureNext]_vars

(***************************************************************************)
(* The operators of the panel (specification Spec).                        *)
(***************************************************************************)

\* bpy.context.edit_object.mode: the operators dereference the edit object before
\* they test its mode, and the host has an edit object only in edit mode
edit_object_mode == "EDIT"

\* the names the selected bones carry at this moment of a run
selected_names(names, sel) == {names[sel[k]] : k \in DOMAIN sel}

\* for i, child in enumerate(bone.children_recursive):
\*     child.name = get_incremented_name(bone.name, i+1)
\* from the i-th descendant (1-based) on
RECURSIVE rename_descendants(_, _, _, _)
rename_descendants(names, bone, i, sel) ==
    LET descendants == children_recursive(bone)
    IN IF i > Len(descendants) THEN names
       ELSE rename_descendants(
                [names EXCEPT ![descendants[i]] =
                    get_incremented_name(names[bone], i, selected_names(names, sel))],
                bone, i + 1, sel)

\* for bone in bpy.context.selected_bones: ... from the k-th selected bone on
RECURSIVE rename_selected(_, _, _, _)
rename_selected(names, sel, k, new_name) ==
    IF k > Len(sel) THEN names
    ELSE rename_selected(
             rename_descendants([names EXCEPT ![sel[k]] = new_name], sel[k], 1, sel),
             sel, k + 1, new_name)

\* for i, bone in enumerate(selected_bones): ... from the i-th batch bone (1-based) on
RECURSIVE rename_batch(_, _, _, _, _, _)
rename_batch(names, batch, i, sel, new_name, relocate) ==
    IF i > Len(batch) THEN names
    ELSE LET plain == new_name \o <<"_", ascii_uppercase[i], "_", "0", "0">>
             bone_name == IF relocate THEN move_lr_to_end(plain) ELSE plain
         IN rename_batch(
                rename_descendants([names EXCEPT ![batch[i]] = bone_name],
                                   batch[i], 1, sel),
                batch, i + 1, sel, new_name, relocate)

\* what every operator records when it starts
Started(o, sel, act) ==
    /\ steps < MaxSteps
    /\ steps' = steps + 1
    /\ op' = o
    /\ old_name' = name
    /\ old_value' = new_name_value
    /\ selected_bones' = sel
    /\ active_bone' = act

\* SimpleOperator.execute -> rename_children_bones
rename_children_bones ==
    \E sel \in Selections :
        /\ edit_object_mode = "EDIT"
        /\ Started("incremental_rename", sel, active_bone)
        /\ IF new_name_value = <<>> \/ ~search_digit(new_name_value)
           THEN /\ reported' = TRUE
                /\ status' = "CANCELLED"
                /\ name' = name
           ELSE /\ name' = rename_selected(name, sel, 1, new_name_value)
                /\ reported' = FALSE
                /\ status' = "FINISHED"
        /\ UNCHANGED <<new_name_value, only_root_bone_selected, scene_move_lr_to_end,
                       call>>

\* AlphabeticalOperator.execute -> alphabetical_rename
alphabetical_rename ==
    \E context \in Contexts :
      LET sel == context[1]
          root_bone == context[2]
      IN
        /\ edit_object_mode = "EDIT"
        /\ Started("alphabetical_rename", sel, root_bone)
        /\ IF new_name_value = <<>> \/ root_bone = None
           THEN /\ reported' = TRUE
                /\ status' = "CANCELLED"
                /\ name' = name
           ELSE LET root_name == new_name_value \o <<"_", "R", "o", "o", "t">>
                    rooted ==
                        IF only_root_bone_selected
                        THEN [name EXCEPT ![root_bone] =
                                 IF scene_move_lr_to_end THEN move_lr_to_end(root_name)
                                 ELSE root_name]
                        ELSE name
                    batch == sort_by_name(children(root_bone), rooted)
                IN /\ name' = rename_batch(rooted, batch, 1, sel, new_name_value,
                                           scene_move_lr_to_end)
                   /\ reported' = FALSE
                   /\ status' = "FINISHED"
        /\ UNCHANGED <<new_name_value, only_root_bone_selected, scene_move_lr_to_end,
                       call>>

\* faulty variant of GetBoneNameOperator: cancels when there is no active bone
GetBoneNameOperator_cancels ==
    \E act \in Bones \cup {None} :
        /\ Started("get_bone_name", selected_bones, act)
        /\ IF act # None
           THEN new_name_value' = name[act] /\ reported' = FALSE /\ status' = "FINISHED"
           ELSE new_name_value' = new_name_value /\ reported' = TRUE
                /\ status' = "CANCELLED"
        /\ UNCHANGED <<name, only_root_bone_selected, scene_move_lr_to_end, call>>

\* GetBoneNameOperator.execute
GetBoneNameOperator ==
    \E act \in Bones \cup {None} :
        /\ Started("get_bone_name", selected_bones, act)
        /\ IF act # None
           THEN new_name_value' = name[act] /\ reported' = FALSE
           ELSE new_name_value' = new_name_value /\ reported' = TRUE
        /\ status' = "FINISHED"
        /\ UNCHANGED <<name, only_root_bone_selected, scene_move_lr_to_end, call>>

\* OBJECT_PT_custom_panel.draw: the user fills in the field and the two check boxes
\* before running the operators
draw ==
    /\ steps = 0
    /\ op = "none"
    /\ new_name_value' \in FieldInputs
    /\ only_root_bone_selected' \in BOOLEAN
    /\ scene_move_lr_to_end' \in BOOLEAN
    /\ old_value' = new_name_value'
    /\ UNCHANGED <<name, selected_bones, active_bone, op, status, reported, old_name,
                   steps, call>>

Init == SceneInit /\ CallInit

Next ==
    \/ draw
    \/ rename_children_bones
    \/ alphabetical_rename
    \/ GetBoneNameOperator
    \/ SwapLRInNameOperator

Spec == Init /\ [][Next]_vars

(***************************************************************************)
(* Claims about the name helpers, checked under SpecPure.                  *)
(***************************************************************************)
HasDigit(n) == \E i \in DOMAIN n : isdigit(n[i])

\* the position of the last digit of n
C1_RunEnd(n) ==
    CHOOSE e \in DOMAIN n : isdigit(n[e]) /\ \A j \in (e + 1)..Len(n) : ~isdigit(n[j])

\* the position where the run of digits that ends at e begins
C1_RunStart(n, e) ==
    CHOOSE b \in 1..e :
        /\ \A j \in b..e : isdigit(n[j])
        /\ (b > 1 => ~isdigit(n[b - 1]))

\* where the text run, which occurs at b, first occurs in n scanning left to right
C1_FirstAt(n, run, b) ==
    CHOOSE p \in 1..b :
        /\ SubSeq(n, p, p + Len(run) - 1) = run
        /\ \A q \in 1..(p - 1) : SubSeq(n, q, q + Len(run) - 1) # run

\* the number a decimal numeral denotes, read from the left
RECURSIVE C1_Value(_, _)
C1_Value(d, acc) ==
    IF d = <<>> THEN acc
    ELSE C1_Value(Tail(d), 10 * acc + (CHOOSE v \in 0..9 : ascii_digits[v + 1] = Head(d)))

\* r is n with the first occurrence of the last digit run replaced by the run's value
\* plus i, zero-padded to at least the run's width and no wider than the value needs
C1_Incremented(n, i, r) ==
    LET e == C1_RunEnd(n)
        b == C1_RunStart(n, e)
        run == SubSeq(n, b, e)
        p == C1_FirstAt(n, run, b)
        w == Len(run)
        after == Len(n) - (p + w - 1)
        d == SubSeq(r, p, Len(r) - after)
    IN /\ Len(r) >= Len(n)
       /\ SubSeq(r, 1, p - 1) = SubSeq(n, 1, p - 1)
       /\ SubSeq(r, Len(r) - after + 1, Len(r)) = SubSeq(n, p + w, Len(n))
       /\ \A k \in DOMAIN d : isdigit(d[k])
       /\ C1_Value(d, 0) = C1_Value(run, 0) + i
       /\ Len(d) >= w
       /\ (Len(d) > w => d[1] # "0")

\* C1: a direct call get_incremented_name(name, inc) with inc >= 1 returns name
\* unchanged when name has no digit; otherwise, when no selected bone carries the
\* candidate, it returns name with the first occurrence of the text of the last digit
\* run replaced by (value of the run + inc), zero-padded to at least the run's width.
C1_Increment ==
    fn = "get_incremented_name" =>
        IF ~HasDigit(arg) THEN ret = arg
        ELSE (\A s \in selnames : ~C1_Incremented(arg, inc, s))
                => C1_Incremented(arg, inc, ret)

\* the text of the last run also occurs earlier, and the number outgrows its width
C1_Witness ==
    /\ fn = "get_incremented_name"
    /\ HasDigit(arg)
    /\ \A s \in selnames : ~C1_Incremented(arg, inc, s)
    /\ LET b == C1_RunStart(arg, C1_RunEnd(arg))
       IN C1_FirstAt(arg, SubSeq(arg, b, C1_RunEnd(arg)), b) < b
    /\ Len(ret) > Len(arg)

\* the k-th candidate: the increment applied to the name, then 1 applied k times to
\* the candidate before
RECURSIVE C2_Candidate(_, _, _)
C2_Candidate(n, i, k) ==
    IF k = 0 THEN new_name_of(n, i) ELSE new_name_of(C2_Candidate(n, i, k - 1), 1)

\* C2: for a name with a digit, whenever the candidate is the name of a selected bone
\* the generator retries with increment 1 on the candidate; after at most as many
\* retries as there are selected names it returns a name no selected bone carries.
C2_CollisionAvoidance ==
    (fn = "get_incremented_name" /\ HasDigit(arg)) =>
        /\ ret \notin selnames
        /\ \E k \in 0..Cardinality(selnames) :
              /\ ret = C2_Candidate(arg, inc, k)
              /\ \A j \in 0..(k - 1) : C2_Candidate(arg, inc, j) \in selnames

\* two candidates in a row were taken
C2_Witness ==
    /\ fn = "get_incremented_name"
    /\ HasDigit(arg)
    /\ C2_Candidate(arg, inc, 0) \in selnames
    /\ C2_Candidate(arg, inc, 1) \in selnames
    /\ ret = C2_Candidate(arg, inc, 2)

EndsWithLR(n) ==
    /\ Len(n) >= 2
    /\ n[Len(n) - 1] = "_"
    /\ n[Len(n)] \in {"L", "R"}

\* C3: move_lr_to_end returns a name that already ends with _L or _R unchanged.
C3_TerminalUnchanged ==
    (fn = "move_lr_to_end" /\ EndsWithLR(arg)) => ret = arg

\* n with every occurrence of _X_ collapsed to _, scanning left to right and resuming
\* after each occurrence
RECURSIVE C4_CollapseAll(_, _)
C4_CollapseAll(n, X) ==
    IF n = <<>> THEN <<>>
    ELSE IF Len(n) >= 3 /\ n[1] = "_" /\ n[2] = X /\ n[3] = "_"
         THEN <<"_">> \o C4_CollapseAll(SubSeq(n, 4, Len(n)), X)
         ELSE <<Head(n)>> \o C4_CollapseAll(Tail(n), X)

\* n with its first occurrence of _X_ collapsed to _
RECURSIVE C4_CollapseFirst(_, _)
C4_CollapseFirst(n, X) ==
    IF n = <<>> THEN <<>>
    ELSE IF Len(n) >= 3 /\ n[1] = "_" /\ n[2] = X /\ n[3] = "_"
         THEN <<"_">> \o SubSeq(n, 4, Len(n))
         ELSE <<Head(n)>> \o C4_CollapseFirst(Tail(n), X)

C4_Has(n, X) == C4_CollapseFirst(n, X) # n

\* C4 as stated: on a name not ending with _L or _R, only the first occurrence of _L_
\* (else of _R_) is collapsed and the suffix appended; otherwise the name is unchanged.
C4_FirstOccurrenceOnly ==
    (fn = "move_lr_to_end" /\ ~EndsWithLR(arg)) =>
        ret = IF C4_Has(arg, "L") THEN C4_CollapseFirst(arg, "L") \o <<"_", "L">>
              ELSE IF C4_Has(arg, "R") THEN C4_CollapseFirst(arg, "R") \o <<"_", "R">>
              ELSE arg

\* C4 amended: on a name not ending with _L or _R, every non-overlapping occurrence of
\* _L_ (else, when there is none, of _R_) is collapsed to _ and the suffix appended;
\* _L takes precedence and the other letter's occurrences stay; otherwise unchanged.
C4_EveryOccurrence ==
    (fn = "move_lr_to_end" /\ ~EndsWithLR(arg)) =>
        ret = IF C4_Has(arg, "L") THEN C4_CollapseAll(arg, "L") \o <<"_", "L">>
              ELSE IF C4_Has(arg, "R") THEN C4_CollapseAll(arg, "R") \o <<"_", "R">>
              ELSE arg

\* a name with two occurrences of _R_ and none of _L_
C4_Witness ==
    /\ fn = "move_lr_to_end"
    /\ ~EndsWithLR(arg)
    /\ ~C4_Has(arg, "L")
    /\ C4_CollapseAll(arg, "R") # C4_CollapseFirst(arg, "R")
    /\ ret = C4_CollapseAll(arg, "R") \o <<"_", "R">>

\* n with a trailing _L turned into _R and a trailing _R into _L
C9_Swapped(n) ==
    IF EndsWithLR(n)
    THEN [n EXCEPT ![Len(n)] = IF n[Len(n)] = "L" THEN "R" ELSE "L"]
    ELSE n

\* C9: the swap command writes the field's text with a trailing _L replaced by _R, a
\* trailing _R by _L, and any other text unchanged; swapping the result gives the
\* text back; no bone is renamed, no error reported and the command ends FINISHED.
C9_Swap ==
    op = "swap_lr_in_name" =>
        /\ new_name_value = C9_Swapped(old_value)
        /\ swap_lr_in_name(new_name_value) = old_value
        /\ name = old_name
        /\ status = "FINISHED"
        /\ ~reported

\* a text ending with _R was swapped
C9_Witness ==
    /\ op = "swap_lr_in_name"
    /\ Len(old_value) > 2
    /\ old_value[Len(old_value)] = "R"
    /\ new_name_value # old_value

(***************************************************************************)
(* Claims about the operators, checked under Spec.                         *)
(***************************************************************************)
IsAncestor(a, b) == depth_below(a, b) > 0

Children(a) == {c \in Bones : parent[c] = a}

\* a is smaller than b as a name: at the first place where they differ a has the
\* smaller character, or a ends there
C5_Before(a, b) ==
    \/ Len(a) < Len(b) /\ SubSeq(b, 1, Len(a)) = a
    \/ \E k \in 1..Len(a) :
          /\ k <= Len(b)
          /\ SubSeq(a, 1, k - 1) = SubSeq(b, 1, k - 1)
          /\ ord(a[k]) < ord(b[k])

\* the 0-based position of child c among its siblings sorted by the names they had
\* when the command started (equal names keep the armature's order)
C5_Position(c) ==
    Cardinality({d \in Children(parent[c]) :
                    \/ C5_Before(old_name[d], old_name[c])
                    \/ (old_name[d] = old_name[c] /\ d < c)})

Selected == Range(selected_bones)

TopLevel(b) == b \in Selected /\ \A a \in Selected : ~IsAncestor(a, b)

\* the names get_incremented_name(n, k) can return, whichever selected names it skips
C6_Produced(n, k) == {C2_Candidate(n, k, m) : m \in 0..Len(selected_bones)}

\* C6: after an incremental rename with a valid input every selected top-level bone
\* carries the input name, its k-th descendant carries a name produced by
\* get_incremented_name(input, k), and a selected bone below another selected bone is
\* renamed only as a descendant, not set to the input name.
C6_IncrementalEffect ==
    (/\ op = "incremental_rename"
     /\ old_value # <<>>
     /\ HasDigit(old_value)) =>
        /\ status = "FINISHED"
        /\ \A t \in Bones : TopLevel(t) =>
              /\ name[t] = old_value
              /\ \A k \in DOMAIN children_recursive(t) :
                    name[children_recursive(t)[k]] \in C6_Produced(old_value, k)
        /\ \A d \in Selected : ~TopLevel(d) => name[d] # old_value

\* C7: incremental rename with an empty or digit-free input reports an error, returns
\* CANCELLED and leaves every bone's name as it was.
C7_IncrementalValidation ==
    (/\ op = "incremental_rename"
     /\ (old_value = <<>> \/ ~HasDigit(old_value))) =>
        /\ reported
        /\ status = "CANCELLED"
        /\ name = old_name

\* a non-empty input without a digit was refused while bones were selected
C7_Witness ==
    /\ op = "incremental_rename"
    /\ old_value # <<>>
    /\ ~HasDigit(old_value)
    /\ selected_bones # <<>>
    /\ reported
    /\ status = "CANCELLED"

\* the validation failures of the commands
C8_ValidationFailed ==
    \/ op = "incremental_rename" /\ (old_value = <<>> \/ ~HasDigit(old_value))
    \/ op = "alphabetical_rename" /\ (old_value = <<>> \/ active_bone = None)
    \/ op = "get_bone_name" /\ active_bone = None

\* C8 as stated: whichever command ran, an error is reported only for a validation
\* failure, the run then ends CANCELLED, and it changed no bone name and no field.
C8_AllOrNothing ==
    reported =>
        /\ C8_ValidationFailed
        /\ status = "CANCELLED"
        /\ name = old_name
        /\ new_name_value = old_value

\* C8 amended: an error is reported only for a validation failure and such a run
\* changed no bone name and no field; it ends CANCELLED in the two rename commands
\* and FINISHED in fetch-active-name; swap-in-field never reports an error.
C8_AllOrNothingButFetch ==
    /\ reported =>
          /\ C8_ValidationFailed
          /\ name = old_name
          /\ new_name_value = old_value
          /\ (op \in {"incremental_rename", "alphabetical_rename"} => status = "CANCELLED")
          /\ (op = "get_bone_name" => status = "FINISHED")
    /\ status = "CANCELLED" => reported

\* fetch-active-name ran without an active bone
C8_Witness ==
    /\ op = "get_bone_name"
    /\ active_bone = None
    /\ reported
    /\ status = "FINISHED"

\* C10: when all bone names were pairwise distinct before an incremental rename that
\* finished, no two selected bones carry the same name after it.
C10_SelectionUnique ==
    (/\ op = "incremental_rename"
     /\ status = "FINISHED"
     /\ \A a, b \in Bones : a # b => old_name[a] # old_name[b]) =>
        \A a, b \in Selected : a # b => name[a] # name[b]

====
